---- MODULE Spec2Model ----
(***************************************************************************)
(* Lead-management REST API: the Auth Guard (protect), the session issuer  *)
(* (generateToken), the auth routes (register, login, logout, me) and the  *)
(* lead routes (list, stats, get, create, update, delete) with the filter  *)
(* compiler (buildFilterQuery).                                            *)
(*                                                                         *)
(* Text is a sequence of one-character strings, so that trim, lower-casing *)
(* and regular-expression matching are computed and not assumed.  Time is  *)
(* counted in days.  Numbers of a payload are fixed-point with one decimal *)
(* digit (505 stands for 50.5), so that "integer" is a checkable property. *)
(***************************************************************************)
EXTENDS Integers, Sequences, FiniteSets, TLC

\* ------------------------------------------------------------------ bounds
MaxTicks == 1
MaxUsers == 2
MaxLeads == 2

\* ------------------------------------------------------- program constants
TokenTTL == 7
MaxNameLen == 50
MinPasswordLen == 6
MaxCompanyLen == 100
MinScore == 0
MaxScore == 100
MinLeadValue == 0
MaxPhoneTail == 15
DefaultPage == 1
DefaultLimit == 20
MaxLimit == 100

Clients == {"c1", "c2"}

\* -------------------------------------------------------------------- text
IsUpper(ch) == ch \in {"A", "B"}

Lower(ch) == IF ch = "A" THEN "a" ELSE IF ch = "B" THEN "b" ELSE ch

LowerText(s) == [i \in 1..Len(s) |-> Lower(s[i])]

RECURSIVE TrimLeft(_)
TrimLeft(s) == IF s # <<>> /\ Head(s) = " " THEN TrimLeft(Tail(s)) ELSE s

RECURSIVE TrimRight(_)
TrimRight(s) ==
    IF s # <<>> /\ s[Len(s)] = " " THEN TrimRight(SubSeq(s, 1, Len(s) - 1)) ELSE s

Trim(s) == TrimRight(TrimLeft(s))

Rep(ch, n) == [i \in 1..n |-> ch]

Count(s, ch) == Cardinality({i \in 1..Len(s) : s[i] = ch})

\* validator isEmail, reduced to its shape: one "@", a local part, a dotted domain
IsEmail(s) ==
    /\ Count(s, "@") = 1
    /\ \E i \in 2..Len(s) - 1 :
          /\ s[i] = "@"
          /\ \E j \in i + 2..Len(s) - 1 : s[j] = "."
          /\ \A j \in 1..Len(s) : s[j] # " "

\* validator normalizeEmail with its defaults: the whole address lower-cased
NormalizeEmail(s) == LowerText(s)

\* ------------------------------------------------------------ lead payloads
Absent == "<absent>"

Sources == {"website", "facebook_ads", "google_ads", "referral", "events", "other"}

Statuses == {"new", "contacted", "qualified", "lost", "won"}

Digits == {"0", "1", "2", "3", "4", "5", "6", "7", "8", "9"}

\* /^[\+]?[1-9][\d]{0,15}$/
MatchesPhone(s) ==
    LET d == IF s # <<>> /\ Head(s) = "+" THEN Tail(s) ELSE s IN
    /\ Len(d) \in 1..1 + MaxPhoneTail
    /\ d[1] \in Digits \ {"0"}
    /\ \A i \in 2..Len(d) : d[i] \in Digits

\* a date as a request writes it: not there, "" or null, the ISO form JSON gives
\* a Date, another notation of the same day, or text that is no date
NoDay == 0 - 1

DateAbsent == [fmt |-> "absent", day |-> NoDay]

DateEmpty == [fmt |-> "empty", day |-> NoDay]

DateIso(day) == [fmt |-> "iso", day |-> day]

DateShort(day) == [fmt |-> "short", day |-> day]

DateGarbage == [fmt |-> "garbage", day |-> NoDay]

\* !value: the custom validator's and the handlers' test
DateFalsy(d) == d.fmt \in {"absent", "empty"}

\* new Date(value).getTime(), NoDay for NaN
DateParse(d) == IF d.fmt \in {"iso", "short"} THEN d.day ELSE NoDay

\* Date.prototype.toJSON
DateJSON(day) == IF day = NoDay THEN DateEmpty ELSE DateIso(day)

IsInt10(v) == v % 10 = 0

\* the chains of validateLead, one operator a chain, each the messages it adds
firstNameRule(body) ==
    (IF Trim(body.firstName) = <<>> THEN <<"First name is required">> ELSE <<>>) \o
    (IF Len(Trim(body.firstName)) > MaxNameLen
        THEN <<"First name cannot exceed 50 characters">> ELSE <<>>)

lastNameRule(body) ==
    (IF Trim(body.lastName) = <<>> THEN <<"Last name is required">> ELSE <<>>) \o
    (IF Len(Trim(body.lastName)) > MaxNameLen
        THEN <<"Last name cannot exceed 50 characters">> ELSE <<>>)

emailRule(body) ==
    IF ~IsEmail(body.email) THEN <<"Please enter a valid email">> ELSE <<>>

phoneRule(body) ==
    IF ~MatchesPhone(body.phone) THEN <<"Please enter a valid phone number">> ELSE <<>>

companyRule(body) ==
    (IF Trim(body.company) = <<>> THEN <<"Company is required">> ELSE <<>>) \o
    (IF Len(Trim(body.company)) > MaxCompanyLen
        THEN <<"Company name cannot exceed 100 characters">> ELSE <<>>)

cityRule(body) ==
    (IF Trim(body.city) = <<>> THEN <<"City is required">> ELSE <<>>) \o
    (IF Len(Trim(body.city)) > MaxNameLen
        THEN <<"City cannot exceed 50 characters">> ELSE <<>>)

stateRule(body) ==
    (IF Trim(body.state) = <<>> THEN <<"State is required">> ELSE <<>>) \o
    (IF Len(Trim(body.state)) > MaxNameLen
        THEN <<"State cannot exceed 50 characters">> ELSE <<>>)

sourceRule(body) ==
    IF body.source \notin Sources THEN <<"Invalid source">> ELSE <<>>

statusRule(body) ==
    IF body.status # Absent /\ body.status \notin Statuses
    THEN <<"Invalid status">> ELSE <<>>

\* isInt({ min: 0 }) without its max
scoreRuleNoMax(body) ==
    IF ~(IsInt10(body.score) /\ body.score >= MinScore * 10)
    THEN <<"Score must be between 0 and 100">> ELSE <<>>

scoreRule(body) ==
    IF ~(IsInt10(body.score) /\ body.score >= MinScore * 10 /\ body.score <= MaxScore * 10)
    THEN <<"Score must be between 0 and 100">> ELSE <<>>

\* isFloat() without its { min: 0 }
leadValueRuleNoMin(body) == <<>>

leadValueRule(body) ==
    IF ~(body.leadValue >= MinLeadValue * 10)
    THEN <<"Lead value must be a positive number">> ELSE <<>>

isQualifiedRule(body) ==
    IF body.isQualified # Absent /\ body.isQualified \notin {"true", "false"}
    THEN <<"isQualified must be a boolean">> ELSE <<>>

lastActivityAtRule(body) ==
    IF ~DateFalsy(body.lastActivityAt) /\ DateParse(body.lastActivityAt) = NoDay
    THEN <<"lastActivityAt must be a valid date">> ELSE <<>>

\* errors.array().map(err => err.msg)
validateLead(body) ==
    firstNameRule(body) \o lastNameRule(body) \o emailRule(body) \o phoneRule(body) \o
    companyRule(body) \o cityRule(body) \o stateRule(body) \o sourceRule(body) \o
    statusRule(body) \o scoreRule(body) \o leadValueRule(body) \o
    isQualifiedRule(body) \o lastActivityAtRule(body)

\* the chains without trim() and normalizeEmail()
Unsanitized(body) == body

\* req.body once the chains' sanitizers (trim, normalizeEmail) have run
Sanitized(body) ==
    [body EXCEPT !.firstName = Trim(@), !.lastName = Trim(@),
                 !.email = NormalizeEmail(@), !.company = Trim(@),
                 !.city = Trim(@), !.state = Trim(@)]

\* --------------------------------------------------------------- responses
NoToken == [form |-> "none", id |-> 0, iat |-> 0]

NoUser == [_id |-> 0, firstName |-> <<>>, lastName |-> <<>>, email |-> <<>>]

NoBody == [none |-> TRUE]

Message(text) == [message |-> text]

NoResp == [status |-> 0, error |-> "", details |-> <<>>, setCookie |-> NoToken,
           clearCookie |-> FALSE, body |-> NoBody]

Reply(status, body) == [NoResp EXCEPT !.status = status, !.body = body]

Fail(status, error) == [NoResp EXCEPT !.status = status, !.error = error]

ValidationFailed(details) ==
    [NoResp EXCEPT !.status = 400, !.error = "Validation failed", !.details = details]

\* ------------------------------------------------------------------ tokens
Malformed == [form |-> "malformed", id |-> 0, iat |-> 0]

\* jwt.sign({ id: userId }, JWT_SECRET, { expiresIn: '7d' }) at time t
generateToken(userId, t) == [form |-> "signed", id |-> userId, iat |-> t]

\* what a client can present: nothing, garbage, a token of the right shape under
\* a wrong signature, or a token the server's secret has signed
Tokens(t) ==
    {Malformed} \cup
    [form : {"badsig", "signed"}, id : 1..MaxUsers, iat : {k * TokenTTL : k \in 0..MaxTicks} \cap 0..t]

NoHeader == [words |-> 0, cred |-> NoToken]

Bearer(tok) == [words |-> 2, cred |-> tok]

Bare(tok) == [words |-> 1, cred |-> tok]

\* jwt.verify: structure, then signature, then expiry
jwtVerify(tok, t) ==
    IF tok.form \in {"malformed", "badsig"} THEN [ok |-> FALSE, name |-> "JsonWebTokenError", id |-> 0]
    ELSE IF t >= tok.iat + TokenTTL THEN [ok |-> FALSE, name |-> "TokenExpiredError", id |-> 0]
    ELSE [ok |-> TRUE, name |-> "", id |-> tok.id]

\* ------------------------------------------------------------------- state
VARIABLES
    users,       \* the User collection
    leads,       \* the Lead collection
    nextUserId,  \* the next fresh user _id
    nextLeadId,  \* the next fresh lead _id
    now,         \* the clock, in days
    req,         \* per client: the request in flight and the response to the last one
    created      \* per lead _id: the payload it was created from, while no update
                 \* or delete has touched it since

vars == <<users, leads, nextUserId, nextLeadId, now, req, created>>

Idle == [pc |-> "idle", route |-> "", cookie |-> NoToken, header |-> NoHeader,
         token |-> NoToken, decoded |-> 0, user |-> NoUser, nexts |-> 0,
         doc |-> NoUser, op |-> "", id |-> 0, body |-> NoBody,
         query |-> [ok |-> TRUE, query |-> << >>], resp |-> NoResp]

Free(c) == req[c].pc \in {"idle", "done"}

Respond(c, slot, resp) ==
    req' = [req EXCEPT ![c] = [slot EXCEPT !.pc = "done", !.resp = resp]]

\* ------------------------------------------------------------- User model
Hash(password) == [hash |-> password]

comparePassword(u, password) == u.password = Hash(password)

\* toJSON / select("-password")
PublicUser(u) == [_id |-> u._id, firstName |-> u.firstName, lastName |-> u.lastName,
                  email |-> u.email]

\* the unique index on email
DuplicateKey(store, email) == \E u \in store : LowerText(u.email) = LowerText(email)

UserFindOne(store, email) == {u \in store : u.email = email}

UserFindById(store, id) == {u \in store : u._id = id}

\* errorHandler: what next(error) is answered with
ErrorHandler(err) ==
    IF err = "DuplicateKey" THEN Fail(400, "Duplicate field value")
    ELSE Fail(500, "Server error")

\* --------------------------------------------------------------- Auth Guard
\* a request for a route mounted behind protect arrives
Arrive(c, route, cookie, header) ==
    /\ Free(c)
    /\ req' = [req EXCEPT ![c] = [Idle EXCEPT !.pc = "ExtractToken", !.route = route,
                                              !.cookie = cookie, !.header = header]]
    /\ UNCHANGED <<users, leads, nextUserId, nextLeadId, now, created>>

\* req.cookies.token || req.headers.authorization?.split(" ")[1]
TokenOf(cookie, header) ==
    IF cookie # NoToken THEN cookie
    ELSE IF header.words >= 2 THEN header.cred
    ELSE NoToken

\* the first statement of protect; the token is all that the later steps read
\* of the cookie and the header
ExtractToken(c) ==
    /\ req[c].pc = "ExtractToken"
    /\ LET tok == TokenOf(req[c].cookie, req[c].header) IN
         IF tok = NoToken
         THEN Respond(c, req[c], Fail(401, "Access denied. No token provided."))
         ELSE req' = [req EXCEPT ![c].pc = "VerifySignature", ![c].token = tok,
                                 ![c].cookie = NoToken, ![c].header = NoHeader]
    /\ UNCHANGED <<users, leads, nextUserId, nextLeadId, now, created>>

\* the catch block testing error instanceof JsonWebTokenError, which a
\* TokenExpiredError is too
AuthErrorByClass(name) ==
    IF name \in {"JsonWebTokenError", "TokenExpiredError"} THEN Fail(401, "Invalid token.")
    ELSE Fail(500, "Server error during authentication.")

\* the catch block of protect
AuthError(name) ==
    IF name = "JsonWebTokenError" THEN Fail(401, "Invalid token.")
    ELSE IF name = "TokenExpiredError" THEN Fail(401, "Token expired.")
    ELSE Fail(500, "Server error during authentication.")

VerifySignature(c) ==
    /\ req[c].pc = "VerifySignature"
    /\ LET v == jwtVerify(req[c].token, now) IN
         IF v.ok
         THEN req' = [req EXCEPT ![c].pc = "LookupUser", ![c].decoded = v.id]
         ELSE Respond(c, req[c], AuthError(v.name))
    /\ UNCHANGED <<users, leads, nextUserId, nextLeadId, now, created>>

\* User.findById(decoded.id).select("-password"), which may fail in the backing store
LookupUser(c, fault) ==
    /\ req[c].pc = "LookupUser"
    /\ LET found == UserFindById(users, req[c].decoded) IN
         IF fault THEN Respond(c, req[c], AuthError("MongoError"))
         ELSE IF found = {}
         THEN Respond(c, req[c], Fail(401, "Invalid token. User not found."))
         ELSE req' = [req EXCEPT ![c].pc = "Authenticated",
                                 ![c].user = PublicUser(CHOOSE u \in found : TRUE),
                                 ![c].nexts = @ + 1]
    /\ UNCHANGED <<users, leads, nextUserId, nextLeadId, now, created>>

\* the lead router without router.use(protect)
Unprotected(c, route) ==
    req[c].pc \in {"ExtractToken", "Authenticated"} /\ req[c].route = route

\* router.use(protect): a handler of the route runs once protect has called next()
Authenticated(c, route) == req[c].pc = "Authenticated" /\ req[c].route = route

\* -------------------------------------------------------------- auth routes
\* errors.array().map(err => err.msg) of validateRegistration
validateRegistration(body) ==
    (IF Trim(body.firstName) = <<>> THEN <<"First name is required">> ELSE <<>>) \o
    (IF Len(Trim(body.firstName)) > MaxNameLen
        THEN <<"First name cannot exceed 50 characters">> ELSE <<>>) \o
    (IF Trim(body.lastName) = <<>> THEN <<"Last name is required">> ELSE <<>>) \o
    (IF Len(Trim(body.lastName)) > MaxNameLen
        THEN <<"Last name cannot exceed 50 characters">> ELSE <<>>) \o
    (IF ~IsEmail(body.email) THEN <<"Please enter a valid email">> ELSE <<>>) \o
    (IF Len(body.password) < MinPasswordLen
        THEN <<"Password must be at least 6 characters">> ELSE <<>>)

\* the same answer under the status of a conflict
UserExists409 == Fail(409, "User already exists with this email")

\* the answer to a registration whose email findOne has found
UserExists == Fail(400, "User already exists with this email")

\* POST /register up to the await of user.save()
RegisterFindOne(c, body) ==
    /\ Free(c)
    /\ (nextUserId - 1) + Cardinality({d \in Clients : req[d].pc = "save"}) < MaxUsers
    /\ LET errors == validateRegistration(body)
           email == NormalizeEmail(body.email)
           doc == [_id |-> 0, firstName |-> Trim(body.firstName),
                   lastName |-> Trim(body.lastName), email |-> email,
                   password |-> body.password] IN
         IF errors # <<>> THEN Respond(c, [Idle EXCEPT !.op = "register", !.body = body],
                                   ValidationFailed(errors))
         ELSE IF UserFindOne(users, email) # {}
         THEN Respond(c, [Idle EXCEPT !.op = "register", !.body = body], UserExists)
         ELSE req' = [req EXCEPT ![c] = [Idle EXCEPT !.pc = "save", !.op = "register",
                                                !.body = body, !.doc = doc]]
    /\ UNCHANGED <<users, leads, nextUserId, nextLeadId, now, created>>

\* user.save(), the cookie and the 201
RegisterSave(c) ==
    /\ req[c].pc = "save"
    /\ LET doc == req[c].doc
           user == [doc EXCEPT !._id = nextUserId, !.password = Hash(doc.password)] IN
         IF DuplicateKey(users, doc.email)
         THEN /\ Respond(c, [Idle EXCEPT !.op = "register", !.body = req[c].body],
                         ErrorHandler("DuplicateKey"))
              /\ UNCHANGED <<users, nextUserId>>
         ELSE /\ users' = users \cup {user}
              /\ nextUserId' = nextUserId + 1
              /\ Respond(c, [Idle EXCEPT !.op = "register", !.body = req[c].body],
                         [Reply(201, PublicUser(user)) EXCEPT
                             !.setCookie = generateToken(user._id, now)])
    /\ UNCHANGED <<leads, nextLeadId, now, created>>

\* errors.array().map(err => err.msg) of validateLogin
validateLogin(body) ==
    (IF ~IsEmail(body.email) THEN <<"Please enter a valid email">> ELSE <<>>) \o
    (IF body.password = <<>> THEN <<"Password is required">> ELSE <<>>)

Login(c, body) ==
    /\ Free(c)
    /\ LET errors == validateLogin(body)
           found == UserFindOne(users, NormalizeEmail(body.email)) IN
         IF errors # <<>> THEN Respond(c, [Idle EXCEPT !.op = "login"], ValidationFailed(errors))
         ELSE IF found = {} THEN Respond(c, [Idle EXCEPT !.op = "login"], Fail(401, "Invalid credentials"))
         ELSE LET user == CHOOSE u \in found : TRUE IN
              IF ~comparePassword(user, body.password)
              THEN Respond(c, [Idle EXCEPT !.op = "login"], Fail(401, "Invalid credentials"))
              ELSE Respond(c, [Idle EXCEPT !.op = "login"], [Reply(200, PublicUser(user)) EXCEPT
                                      !.setCookie = generateToken(user._id, now)])
    /\ UNCHANGED <<users, leads, nextUserId, nextLeadId, now, created>>

Logout(c) ==
    /\ Free(c)
    /\ Respond(c, [Idle EXCEPT !.op = "logout"], [Reply(200, Message("Logout successful")) EXCEPT !.clearCookie = TRUE])
    /\ UNCHANGED <<users, leads, nextUserId, nextLeadId, now, created>>

\* GET /me, behind protect
Me(c) ==
    /\ Authenticated(c, "me")
    /\ Respond(c, [req[c] EXCEPT !.op = "me"], Reply(200, req[c].user))
    /\ UNCHANGED <<users, leads, nextUserId, nextLeadId, now, created>>

\* -------------------------------------------------------------- Lead model
\* new Lead(leadData) and save(): the schema's defaults and casts, the timestamps
LeadDocument(data, id, t) ==
    [_id |-> id, firstName |-> data.firstName, lastName |-> data.lastName,
     email |-> data.email, phone |-> data.phone, company |-> data.company,
     city |-> data.city, state |-> data.state, source |-> data.source,
     status |-> IF data.status = Absent THEN "new" ELSE data.status,
     score |-> data.score, leadValue |-> data.leadValue,
     isQualified |-> data.isQualified = "true",
     lastActivityAt |-> data.lastActivityAt.day,
     createdAt |-> t, updatedAt |-> t, createdBy |-> data.createdBy]

\* findByIdAndUpdate(id, updateData, { new: true, runValidators: true }) on the
\* document found: the paths of updateData are set, createdAt and createdBy are
\* immutable, updatedAt is refreshed
LeadUpdate(lead, data, t) ==
    [lead EXCEPT !.firstName = data.firstName, !.lastName = data.lastName,
                 !.email = data.email, !.phone = data.phone,
                 !.company = data.company, !.city = data.city,
                 !.state = data.state, !.source = data.source,
                 !.status = IF data.status = Absent THEN @ ELSE data.status,
                 !.score = data.score, !.leadValue = data.leadValue,
                 !.isQualified = IF data.isQualified = Absent THEN @
                                 ELSE data.isQualified = "true",
                 !.lastActivityAt = IF data.lastActivityAt.fmt = "absent" THEN @
                                    ELSE data.lastActivityAt.day,
                 !.updatedAt = t]

LeadFindById(store, id) == {l \in store : l._id = id}

\* populate('createdBy', 'firstName lastName email') and the JSON of the response
Populated(lead, store) ==
    LET found == UserFindById(store, lead.createdBy) IN
    [lead EXCEPT !.createdBy = IF found = {} THEN NoUser
                               ELSE PublicUser(CHOOSE u \in found : TRUE),
                 !.lastActivityAt = DateJSON(@)]

\* ------------------------------------------------------------- lead routes
\* { createdBy: req.user._id, ...req.body }: the payload's creator wins
leadDataBodyLast(body, user) ==
    [Sanitized(body) EXCEPT
        !.createdBy = IF @ = 0 THEN user._id ELSE @,
        !.lastActivityAt = IF DateFalsy(@) THEN @ ELSE DateIso(DateParse(@))]

\* { ...req.body, createdBy: req.user._id }, lastActivityAt made a Date
leadDataOf(body, user) ==
    [Sanitized(body) EXCEPT
        !.createdBy = user._id,
        !.lastActivityAt = IF DateFalsy(@) THEN @ ELSE DateIso(DateParse(@))]

\* { ...req.body }, lastActivityAt made a Date
updateDataOf(body) ==
    [Sanitized(body) EXCEPT
        !.lastActivityAt = IF DateFalsy(@) THEN @ ELSE DateIso(DateParse(@))]

\* POST /
Create(c, body) ==
    /\ Authenticated(c, "leads")
    /\ LET errors == validateLead(body)
           slot == [req[c] EXCEPT !.op = "create", !.body = body]
           lead == LeadDocument(leadDataOf(body, req[c].user), nextLeadId, now) IN
         IF errors # <<>>
         THEN /\ Respond(c, slot, ValidationFailed(errors))
              /\ UNCHANGED <<leads, nextLeadId, created>>
         ELSE /\ nextLeadId <= MaxLeads
              /\ leads' = leads \cup {lead}
              /\ nextLeadId' = nextLeadId + 1
              /\ created' = [created EXCEPT ![lead._id] = {body}]
              /\ Respond(c, [slot EXCEPT !.id = lead._id], Reply(201, Populated(lead, users)))
    /\ UNCHANGED <<users, nextUserId, now>>

\* PUT /:id
Update(c, id, body) ==
    /\ Authenticated(c, "leads")
    /\ LET errors == validateLead(body)
           slot == [req[c] EXCEPT !.op = "update", !.id = id, !.body = body]
           found == LeadFindById(leads, id) IN
         IF errors # <<>>
         THEN /\ Respond(c, slot, ValidationFailed(errors))
              /\ UNCHANGED <<leads, created>>
         ELSE IF found = {}
         THEN /\ Respond(c, slot, Fail(404, "Lead not found"))
              /\ UNCHANGED <<leads, created>>
         ELSE LET old == CHOOSE l \in found : TRUE
                  lead == LeadUpdate(old, updateDataOf(body), now) IN
              /\ leads' = (leads \ {old}) \cup {lead}
              /\ created' = [created EXCEPT ![id] = {}]
              /\ Respond(c, slot, Reply(200, Populated(lead, users)))
    /\ UNCHANGED <<users, nextUserId, nextLeadId, now>>

\* DELETE /:id
Delete(c, id) ==
    /\ Authenticated(c, "leads")
    /\ LET slot == [req[c] EXCEPT !.op = "delete", !.id = id]
           found == LeadFindById(leads, id) IN
         IF found = {}
         THEN /\ Respond(c, slot, Fail(404, "Lead not found"))
              /\ UNCHANGED <<leads, created>>
         ELSE /\ leads' = leads \ found
              /\ created' = [created EXCEPT ![id] = {}]
              /\ Respond(c, slot, Reply(200, Message("Lead deleted successfully")))
    /\ UNCHANGED <<users, nextUserId, nextLeadId, now>>

\* GET /:id
Get(c, id) ==
    /\ Authenticated(c, "leads")
    /\ LET slot == [req[c] EXCEPT !.op = "get", !.id = id]
           found == LeadFindById(leads, id) IN
         IF found = {}
         THEN Respond(c, slot, Fail(404, "Lead not found"))
         ELSE Respond(c, slot, Reply(200, Populated(CHOOSE l \in found : TRUE, users)))
    /\ UNCHANGED <<users, leads, nextUserId, nextLeadId, now, created>>

\* --------------------------------------------------------- filter compiler
\* new RegExp(pattern, 'i') over the characters of the model: "(" opens a group
\* that nothing closes (a SyntaxError), "." matches any character, every other
\* character matches itself in either case
RegExpThrows(pattern) == \E i \in 1..Len(pattern) : pattern[i] = "("

AtomMatches(atom, ch) == atom = "." \/ Lower(atom) = Lower(ch)

RegExpTest(pattern, text) ==
    \E k \in 0..Len(text) - Len(pattern) :
        \A i \in 1..Len(pattern) : AtomMatches(pattern[i], text[k + i])

Undefined == [type |-> "undefined"]

Text(s) == [type |-> "string", text |-> s]

Num(n) == [type |-> "number", n |-> n]

Arr(set) == [type |-> "array", items |-> set]

Bool(b) == [type |-> "boolean", b |-> b]

\* a filter entry that is an object: operator "" when it has none
Entry(operator, value, value2) ==
    [shape |-> "object", operator |-> operator, value |-> value, value2 |-> value2]

\* a filter entry that is a number, a string or a boolean
ScalarEntry == [shape |-> "scalar", operator |-> "", value |-> Undefined, value2 |-> Undefined]

NullEntry == [shape |-> "null", operator |-> "", value |-> Undefined, value2 |-> Undefined]

NoPredicate == [p |-> "none"]

\* the switch of buildFilterQuery: what query[key] is set to, NoPredicate when it
\* is left unset, or the SyntaxError of new RegExp
PredicateOf(key, operator, value, value2) ==
    IF key \in {"email", "company", "city", "state"} THEN
        IF operator = "contains" THEN
            IF RegExpThrows(value.text) THEN [p |-> "throw"]
            ELSE [p |-> "regex", pattern |-> value.text]
        ELSE IF operator = "equals" THEN [p |-> "eq", v |-> value]
        ELSE NoPredicate
    ELSE IF key \in {"source", "status"} THEN
        IF operator = "in" /\ value.type = "array" THEN [p |-> "in", items |-> value.items]
        ELSE IF operator = "equals" THEN [p |-> "eq", v |-> value]
        ELSE NoPredicate
    ELSE IF key \in {"score", "leadValue"} THEN
        IF operator = "between" /\ value2.type # "undefined"
            THEN [p |-> "range", gte |-> value.n, lte |-> value2.n]
        ELSE IF operator = "lt" THEN [p |-> "lt", n |-> value.n]
        ELSE IF operator = "gt" THEN [p |-> "gt", n |-> value.n]
        ELSE IF operator = "equals" THEN [p |-> "eq", v |-> value]
        ELSE NoPredicate
    ELSE IF key \in {"createdAt", "lastActivityAt"} THEN
        IF operator = "between" /\ value2.type # "undefined"
            THEN [p |-> "range", gte |-> value.n, lte |-> value2.n]
        ELSE IF operator = "after" THEN [p |-> "gt", n |-> value.n]
        ELSE IF operator = "before" THEN [p |-> "lt", n |-> value.n]
        ELSE IF operator = "on" THEN [p |-> "day", gte |-> value.n, lt |-> value.n + 1]
        ELSE NoPredicate
    ELSE IF key = "isQualified" THEN
        IF operator = "equals"
            THEN [p |-> "eq", v |-> Bool(\/ value.type = "string" /\ value.text = "true"
                                         \/ value.type = "boolean" /\ value.b)]
        ELSE NoPredicate
    ELSE NoPredicate

\* the body of the forEach: the early returns, then the switch
EntryPredicate(key, filter) ==
    IF filter.shape # "object" THEN NoPredicate
    ELSE IF filter.operator = "" \/ filter.value.type = "undefined" THEN NoPredicate
    ELSE PredicateOf(key, filter.operator, filter.value, filter.value2)

\* buildFilterQuery(filters): the query object, or the exception it ends with
buildFilterQuery(filters) ==
    LET pred == [k \in DOMAIN filters |-> EntryPredicate(k, filters[k])]
        set == {k \in DOMAIN filters : pred[k] # NoPredicate} IN
    IF \E k \in set : pred[k].p = "throw" THEN [ok |-> FALSE, query |-> << >>]
    ELSE [ok |-> TRUE, query |-> [k \in set |-> pred[k]]]

\* ------------------------------------------------------------ lead queries
\* whether a stored value satisfies a compiled predicate (null satisfies no
\* comparison)
PredicateHolds(pred, x) ==
    IF pred.p = "eq" THEN
        IF pred.v.type = "string" THEN x = pred.v.text
        ELSE IF pred.v.type = "number" THEN x = pred.v.n
        ELSE IF pred.v.type = "boolean" THEN x = pred.v.b
        ELSE FALSE
    ELSE IF pred.p = "regex" THEN RegExpTest(pred.pattern, x)
    ELSE IF pred.p = "in" THEN x \in pred.items
    ELSE IF pred.p = "range" THEN x # NoDay /\ pred.gte <= x /\ x <= pred.lte
    ELSE IF pred.p = "day" THEN x # NoDay /\ pred.gte <= x /\ x < pred.lt
    ELSE IF pred.p = "lt" THEN x # NoDay /\ x < pred.n
    ELSE IF pred.p = "gt" THEN x # NoDay /\ x > pred.n
    ELSE FALSE

SearchFields == {"firstName", "lastName", "email", "company", "city", "state"}

\* Lead.find(query): the filter paths AND-ed, the $or of the search AND-ed to them
Matches(lead, query, search) ==
    /\ \A k \in DOMAIN query : PredicateHolds(query[k], lead[k])
    /\ search # <<>> => \E f \in SearchFields : RegExpTest(search, lead[f])

NoParam == 0 - 1

\* errors.array().map(err => err.msg) of the chains of GET /
validateList(q) ==
    (IF q.page # NoParam /\ q.page < 1
        THEN <<"Page must be a positive integer">> ELSE <<>>) \o
    (IF q.limit # NoParam /\ ~(q.limit >= 1 /\ q.limit <= MaxLimit)
        THEN <<"Limit must be between 1 and 100">> ELSE <<>>) \o
    (IF q.sortOrder # Absent /\ q.sortOrder \notin {"asc", "desc"}
        THEN <<"Sort order must be asc or desc">> ELSE <<>>)

\* Math.floor(total / limit)
Floor(total, limit) == total \div limit

\* Math.ceil(total / limit)
Ceil(total, limit) ==
    IF total % limit = 0 THEN total \div limit ELSE total \div limit + 1

Min(a, b) == IF a < b THEN a ELSE b

\* the orders sort({ [sortBy]: sortOrder }) may give: any order of the
\* documents that the key does not contradict
Sorted(set, sortBy, sortOrder) ==
    {o \in [1..Cardinality(set) -> set] :
        /\ \A i, j \in DOMAIN o : i # j => o[i] # o[j]
        /\ \A i, j \in DOMAIN o :
              i < j => IF sortOrder = 1 THEN o[i][sortBy] <= o[j][sortBy]
                       ELSE o[i][sortBy] >= o[j][sortBy]}

\* skip(skip).limit(limit)
Page(o, skip, limit) == SubSeq(o, skip + 1, Min(skip + limit, Len(o)))

Pagination(page, limit, total) ==
    LET totalPages == Ceil(total, limit) IN
    [currentPage |-> page, totalPages |-> totalPages, totalLeads |-> total,
     hasNextPage |-> page < totalPages, hasPrevPage |-> page > 1, limit |-> limit]

\* GET /
List(c, q) ==
    /\ Authenticated(c, "leads")
    /\ LET errors == validateList(q)
           page == IF q.page = NoParam \/ q.page = 0 THEN DefaultPage ELSE q.page
           limit == IF q.limit = NoParam \/ q.limit = 0 THEN DefaultLimit ELSE q.limit
           skip == (page - 1) * limit
           search == Trim(q.search)
           sortBy == IF q.sortBy = Absent THEN "createdAt" ELSE q.sortBy
           sortOrder == IF q.sortOrder = "asc" THEN 1 ELSE 0 - 1
           compiled == IF q.filters.kind = "object" THEN buildFilterQuery(q.filters.map)
                       ELSE [ok |-> q.filters.kind = "absent", query |-> << >>]
           slot == [req[c] EXCEPT !.op = "list", !.body = q,
                                  !.query = IF errors = <<>> THEN compiled ELSE @] IN
         IF errors # <<>> THEN Respond(c, slot, ValidationFailed(errors))
         ELSE IF ~compiled.ok THEN Respond(c, slot, Fail(400, "Invalid filters format"))
         ELSE IF RegExpThrows(search) THEN Respond(c, slot, ErrorHandler("SyntaxError"))
         ELSE LET found == {l \in leads : Matches(l, compiled.query, search)} IN
              \E o \in Sorted(found, sortBy, sortOrder) :
                  Respond(c, slot,
                          Reply(200, [leads |-> [i \in DOMAIN Page(o, skip, limit) |->
                                                   Populated(Page(o, skip, limit)[i], users)],
                                      pagination |-> Pagination(page, limit,
                                                                Cardinality(found))]))
    /\ UNCHANGED <<users, leads, nextUserId, nextLeadId, now, created>>

\* the $sum of $score behind a $match on status "new"
RECURSIVE SumScoresOfNew(_)
SumScoresOfNew(set) ==
    IF set = {} THEN 0
    ELSE LET x == CHOOSE y \in set : TRUE IN
         (IF x.status = "new" THEN x.score ELSE 0) + SumScoresOfNew(set \ {x})

\* the $sum of $score that $avg divides by the number of documents
RECURSIVE SumScores(_)
SumScores(set) ==
    IF set = {} THEN 0
    ELSE LET x == CHOOSE y \in set : TRUE IN x.score + SumScores(set \ {x})

\* GET /stats/overview: avgScore as the fraction num/den of the scores' mean
Stats(c) ==
    /\ Authenticated(c, "leads")
    /\ LET n == Cardinality(leads)
           total == SumScores(leads)
           avg == IF n = 0 \/ total = 0 THEN [num |-> 0, den |-> 1]
                  ELSE [num |-> total, den |-> n] IN
         Respond(c, [req[c] EXCEPT !.op = "stats"],
                 Reply(200, [totalLeads |-> n,
                             statusStats |-> [st \in {l.status : l \in leads} |->
                                                Cardinality({l \in leads : l.status = st})],
                             sourceStats |-> [so \in {l.source : l \in leads} |->
                                                Cardinality({l \in leads : l.source = so})],
                             avgScore |-> avg]))
    /\ UNCHANGED <<users, leads, nextUserId, nextLeadId, now, created>>

\* time passes, a token's lifetime at a step
Tick ==
    /\ now < MaxTicks * TokenTTL
    /\ now' = now + TokenTTL
    /\ UNCHANGED <<users, leads, nextUserId, nextLeadId, req, created>>

\* ------------------------------------------------------------------ inputs
GoodLead ==
    [firstName |-> <<"a", "b">>, lastName |-> <<"b">>,
     email |-> <<"a", "@", "x", ".", "c">>, phone |-> <<"+", "1", "2">>,
     company |-> <<"a">>, city |-> <<"b">>, state |-> <<"a", "b">>,
     source |-> "website", status |-> "new", score |-> 500, leadValue |-> 105,
     isQualified |-> "false", lastActivityAt |-> DateAbsent,
     createdAt |-> NoDay, createdBy |-> 0]

\* valid, and changed by the sanitizers and the schema's defaults
PaddedLead ==
    [GoodLead EXCEPT !.firstName = <<" ", "a", "b", " ">>,
                     !.email = <<"A", "@", "x", ".", "c">>,
                     !.status = Absent, !.isQualified = Absent,
                     !.lastActivityAt = DateShort(3), !.score = 0, !.leadValue = 0]

\* valid, and carrying a creator and a creation date of its own
ForgedLead ==
    [GoodLead EXCEPT !.createdBy = 2, !.createdAt = 5, !.status = "won",
                     !.source = "referral", !.score = 1000, !.isQualified = "true",
                     !.lastActivityAt = DateIso(3)]

ValidLeads == {GoodLead, PaddedLead, ForgedLead}

InvalidLeads ==
    {[GoodLead EXCEPT !.score = 1500], [GoodLead EXCEPT !.score = 0 - 10],
     [GoodLead EXCEPT !.score = 505], [GoodLead EXCEPT !.leadValue = 0 - 5],
     [GoodLead EXCEPT !.source = "bogus"], [GoodLead EXCEPT !.status = "bogus"],
     [GoodLead EXCEPT !.firstName = <<" ">>],
     [GoodLead EXCEPT !.firstName = Rep("a", MaxNameLen + 1)],
     [GoodLead EXCEPT !.lastName = <<>>],
     [GoodLead EXCEPT !.lastName = Rep("a", MaxNameLen + 1)],
     [GoodLead EXCEPT !.email = <<"a", "x", ".", "c">>],
     [GoodLead EXCEPT !.phone = <<"0", "1">>],
     [GoodLead EXCEPT !.phone = <<"+">> \o Rep("1", MaxPhoneTail + 2)],
     [GoodLead EXCEPT !.company = <<>>],
     [GoodLead EXCEPT !.company = Rep("a", MaxCompanyLen + 1)],
     [GoodLead EXCEPT !.city = <<" ", " ">>],
     [GoodLead EXCEPT !.city = Rep("a", MaxNameLen + 1)],
     [GoodLead EXCEPT !.state = <<>>],
     [GoodLead EXCEPT !.state = Rep("a", MaxNameLen + 1)],
     [GoodLead EXCEPT !.isQualified = "maybe"],
     [GoodLead EXCEPT !.lastActivityAt = DateGarbage],
     [ForgedLead EXCEPT !.score = 1500, !.leadValue = 0 - 5, !.source = "bogus",
                        !.firstName = <<" ">>]}

LeadIds == 1..MaxLeads + 1

NoFilters == [kind |-> "absent", map |-> << >>]

DefaultQuery ==
    [page |-> NoParam, limit |-> NoParam, search |-> <<>>, sortBy |-> Absent,
     sortOrder |-> Absent, filters |-> NoFilters]

Pw == Rep("p", MinPasswordLen)

GoodRegistration ==
    [firstName |-> <<"a">>, lastName |-> <<"b">>, email |-> <<"a", "@", "x", ".", "c">>,
     password |-> Pw]

Registrations ==
    {GoodRegistration,
     [GoodRegistration EXCEPT !.email = <<"A", "@", "x", ".", "c">>],
     [GoodRegistration EXCEPT !.email = <<"b", "@", "x", ".", "c">>],
     [GoodRegistration EXCEPT !.email = <<"a", "x", ".", "c">>],
     [GoodRegistration EXCEPT !.password = Rep("p", MinPasswordLen - 1)],
     [GoodRegistration EXCEPT !.firstName = <<" ">>]}

Logins ==
    {[email |-> e, password |-> pw] :
        e \in {<<"A", "@", "x", ".", "c">>, <<"b", "@", "x", ".", "c">>, <<"a", "x">>},
        pw \in {Pw, Rep("q", MinPasswordLen), <<>>}}

\* how a client presents token tok: as the cookie, as a Bearer header, as a
\* header of one word, or next to another token in the other place
Presentations(t) ==
    {<<NoToken, NoHeader>>} \cup
    UNION {{<<tok, NoHeader>>, <<NoToken, Bearer(tok)>>, <<NoToken, Bare(tok)>>,
            <<tok, Bearer(Malformed)>>, <<Malformed, Bearer(tok)>>} : tok \in Tokens(t)}

\* stored leads for the queries, as create stores them
UserOne == CHOOSE u \in {[_id |-> 1, firstName |-> <<"a">>, lastName |-> <<"b">>,
                          email |-> <<"a", "@", "x", ".", "c">>]} : TRUE

UserTwo == [UserOne EXCEPT !._id = 2, !.email = <<"b", "@", "x", ".", "c">>]

LeadOne == LeadDocument(leadDataOf(GoodLead, UserOne), 1, 0)

LeadTwo ==
    LeadDocument(leadDataOf([ForgedLead EXCEPT !.firstName = <<"B", "a">>,
                                               !.email = <<"b", "@", "x", ".", "c">>,
                                               !.company = <<"A", "b">>,
                                               !.city = <<"a", ".", "b">>],
                            UserTwo), 2, TokenTTL)

LeadThree ==
    LeadDocument(leadDataOf([GoodLead EXCEPT !.status = "lost", !.isQualified = "true",
                                             !.company = <<"b">>, !.leadValue = 0],
                            UserOne), 3, TokenTTL)

QueryStores == SUBSET {LeadOne, LeadTwo, LeadThree}

Filters(map) == [kind |-> "object", map |-> map]

\* filters that JSON.parse rejects, and the JSON text "null"
BadFilters == {[kind |-> "unparseable", map |-> << >>], [kind |-> "null", map |-> << >>]}

One(k, e) == [x \in {k} |-> e]

Two(k, e, l, f) == [x \in {k, l} |-> IF x = k THEN e ELSE f]

WellFormedEntries ==
    {<<"city", Entry("contains", Text(<<"A">>), Undefined)>>,
     <<"city", Entry("contains", Text(<<".">>), Undefined)>>,
     <<"city", Entry("contains", Text(<<"(">>), Undefined)>>,
     <<"city", Entry("equals", Text(<<"b">>), Undefined)>>,
     <<"company", Entry("equals", Text(<<"a", "b">>), Undefined)>>,
     <<"email", Entry("contains", Text(<<"@", "x">>), Undefined)>>,
     <<"state", Entry("contains", Text(<<"b">>), Text(<<"a">>))>>,
     <<"status", Entry("in", Arr({"won", "lost"}), Undefined)>>,
     <<"status", Entry("equals", Text("new"), Undefined)>>,
     <<"source", Entry("equals", Text("referral"), Undefined)>>,
     <<"score", Entry("between", Num(0), Num(500))>>,
     <<"score", Entry("gt", Num(500), Undefined)>>,
     <<"score", Entry("equals", Num(500), Undefined)>>,
     <<"leadValue", Entry("lt", Num(105), Undefined)>>,
     <<"createdAt", Entry("on", Num(TokenTTL), Undefined)>>,
     <<"createdAt", Entry("before", Num(TokenTTL), Undefined)>>,
     <<"createdAt", Entry("between", Num(0), Num(TokenTTL))>>,
     <<"lastActivityAt", Entry("after", Num(0), Undefined)>>,
     <<"lastActivityAt", Entry("before", Num(5), Undefined)>>,
     <<"isQualified", Entry("equals", Text("true"), Undefined)>>,
     <<"isQualified", Entry("equals", Bool(TRUE), Undefined)>>,
     <<"isQualified", Entry("equals", Text("false"), Undefined)>>}

MalformedEntries ==
    {<<"city", ScalarEntry>>, <<"status", NullEntry>>,
     <<"city", Entry("", Text(<<"a">>), Undefined)>>,
     <<"score", Entry("gt", Undefined, Undefined)>>,
     <<"bogus", Entry("equals", Text(<<"a">>), Undefined)>>,
     <<"city", Entry("gt", Text(<<"a">>), Undefined)>>,
     <<"status", Entry("contains", Text("won"), Undefined)>>,
     <<"score", Entry("in", Arr({500}), Undefined)>>,
     <<"score", Entry("between", Num(0), Undefined)>>,
     <<"createdAt", Entry("equals", Num(0), Undefined)>>,
     <<"lastActivityAt", Entry("between", Num(0), Undefined)>>,
     <<"isQualified", Entry("in", Arr({TRUE}), Undefined)>>,
     <<"status", Entry("in", Text("won"), Undefined)>>}

FilterInputs ==
    {NoFilters} \cup BadFilters \cup {Filters(<< >>)} \cup
    {Filters(One(e[1], e[2])) : e \in WellFormedEntries \cup MalformedEntries} \cup
    {Filters(Two(e[1], e[2], f[1], f[2])) :
        e \in {x \in WellFormedEntries \cup MalformedEntries : x[1] \in {"city", "status", "bogus"}},
        f \in {x \in WellFormedEntries \cup MalformedEntries :
                  x[1] \in {"score", "isQualified", "lastActivityAt"}}}

Queries ==
    {[DefaultQuery EXCEPT !.filters = f] : f \in FilterInputs} \cup
    {[DefaultQuery EXCEPT !.page = p, !.limit = l, !.sortBy = sb, !.sortOrder = so,
                          !.filters = f] :
        p \in {NoParam, 0, 1, 2, 3}, l \in {NoParam, 0, 1, 2, MaxLimit, MaxLimit + 1},
        sb \in {Absent, "score"}, so \in {Absent, "asc", "desc", "up"},
        f \in {NoFilters, Filters(One("status", Entry("in", Arr({"won", "lost"}), Undefined)))}} \cup
    {[DefaultQuery EXCEPT !.search = se, !.filters = f, !.limit = l] :
        se \in {<<"a">>, <<"A", "B">>, <<"a", ".">>, <<".", "c">>, <<"(">>,
                <<" ", "b", " ">>, <<"x", ".">>, <<" ">>},
        f \in {NoFilters, Filters(One("score", Entry("equals", Num(500), Undefined)))},
        l \in {NoParam, 1}}

\* ----------------------------------------------------------- specification
Init ==
    /\ users = {}
    /\ leads = {}
    /\ nextUserId = 1
    /\ nextLeadId = 1
    /\ now = 0
    /\ req = [c \in Clients |-> Idle]
    /\ created = [i \in LeadIds |-> {}]

Next ==
    \/ \E c \in {"c1"}, route \in {"leads", "me"}, p \in Presentations(now) :
          Arrive(c, route, p[1], p[2])
    \/ \E c \in {"c1"} : ExtractToken(c)
    \/ \E c \in {"c1"} : VerifySignature(c)
    \/ \E c \in {"c1"}, fault \in BOOLEAN : LookupUser(c, fault)
    \/ \E c \in {"c1"}, body \in Registrations : RegisterFindOne(c, body)
    \/ \E c \in {"c1"} : RegisterSave(c)
    \/ \E c \in {"c1"}, body \in Logins : Login(c, body)
    \/ \E c \in {"c1"} : Logout(c)
    \/ \E c \in {"c1"} : Me(c)
    \/ \E c \in {"c1"}, body \in {GoodLead, [GoodLead EXCEPT !.score = 1500]} :
          Create(c, body)
    \/ \E c \in {"c1"}, id \in LeadIds,
          body \in {ForgedLead, [GoodLead EXCEPT !.score = 1500]} : Update(c, id, body)
    \/ \E c \in {"c1"}, id \in LeadIds : Delete(c, id)
    \/ \E c \in {"c1"}, id \in LeadIds : Get(c, id)
    \/ \E c \in {"c1"} : List(c, DefaultQuery)
    \/ \E c \in {"c1"} : Stats(c)
    \/ Tick

Spec == Init /\ [][Next]_vars

\* two clients registering at once
NextRegister ==
    \/ \E c \in Clients, body \in Registrations : RegisterFindOne(c, body)
    \/ \E c \in Clients : RegisterSave(c)
    \/ \E c \in Clients, body \in Logins : Login(c, body)
    \/ Tick

SpecRegister == Init /\ [][NextRegister]_vars

\* the lead routes, with two users registered
RegisteredUsers ==
    {[_id |-> 1, firstName |-> <<"a">>, lastName |-> <<"b">>,
      email |-> <<"a", "@", "x", ".", "c">>, password |-> Hash(Pw)],
     [_id |-> 2, firstName |-> <<"a">>, lastName |-> <<"b">>,
      email |-> <<"b", "@", "x", ".", "c">>, password |-> Hash(Pw)]}

InitLeads ==
    /\ users = RegisteredUsers
    /\ leads = {}
    /\ nextUserId = 3
    /\ nextLeadId = 1
    /\ now = 0
    /\ req = [c \in Clients |-> Idle]
    /\ created = [i \in LeadIds |-> {}]

LeadPresentations(t) ==
    {<<NoToken, NoHeader>>, <<generateToken(1, t), NoHeader>>,
     <<NoToken, Bearer(generateToken(2, t))>>}

NextLeads ==
    \/ \E p \in LeadPresentations(now) : Arrive("c1", "leads", p[1], p[2])
    \/ ExtractToken("c1")
    \/ VerifySignature("c1")
    \/ \E fault \in BOOLEAN : LookupUser("c1", fault)
    \/ \E body \in ValidLeads \cup InvalidLeads : Create("c1", body)
    \/ \E id \in LeadIds, body \in ValidLeads \cup InvalidLeads : Update("c1", id, body)
    \/ \E id \in LeadIds : Delete("c1", id)
    \/ \E id \in LeadIds : Get("c1", id)
    \/ Tick

SpecLeads == InitLeads /\ [][NextLeads]_vars

\* GET / on the stores a week of creates may have left, asked by user 1
InitQuery ==
    /\ users = RegisteredUsers
    /\ leads \in QueryStores
    /\ nextUserId = 3
    /\ nextLeadId = 4
    /\ now = TokenTTL
    /\ req = [c \in Clients |->
                IF c = "c1"
                THEN [Idle EXCEPT !.pc = "Authenticated", !.route = "leads",
                                  !.token = generateToken(1, TokenTTL), !.decoded = 1,
                                  !.user = UserOne, !.nexts = 1]
                ELSE Idle]
    /\ created = [i \in LeadIds |-> {}]

NextQuery == \E q \in Queries : List("c1", q)

SpecQuery == InitQuery /\ [][NextQuery]_vars

\* ------------------------------------------------------------------ claims
LeadOps == {"list", "stats", "get", "create", "update", "delete"}

AuthOps == {"register", "login", "logout"}

Guarded(c) == req[c].route \in {"leads", "me"}

CarriesNoToken(c) == req[c].cookie = NoToken /\ req[c].header.words < 2

C1_State ==
    \A c \in Clients :
        /\ req[c].op \in LeadOps =>
              /\ req[c].route = "leads"
              /\ req[c].nexts = 1
              /\ \E u \in users : req[c].user = PublicUser(u)
        /\ (req[c].pc = "done" /\ Guarded(c) /\ req[c].token = NoToken) =>
              /\ CarriesNoToken(c)
              /\ req[c].resp.status = 401
              /\ req[c].resp.error = "Access denied. No token provided."
              /\ req[c].op = ""
        /\ req[c].op \in AuthOps =>
              /\ req[c].nexts = 0
              /\ req[c].user = NoUser

C1_Step ==
    /\ leads' # leads =>
          \E c \in Clients :
              /\ req[c].pc = "Authenticated" /\ req[c].route = "leads"
              /\ req'[c].pc = "done" /\ req'[c].op \in {"create", "update", "delete"}
    /\ \A c \in Clients :
          (req[c].pc = "ExtractToken" /\ CarriesNoToken(c) /\ req'[c] # req[c]) =>
              /\ req'[c].pc = "done" /\ req'[c].resp.status = 401
              /\ leads' = leads

\* C1: a lead operation runs its handler, and the lead store is read or written,
\* only after the Auth Guard has authenticated that request; a request carrying no
\* token in the cookie and none in the Authorization header is answered 401 and
\* leaves the lead store as it was; register, login and logout are answered with
\* no pass of the Auth Guard.
C1_LeadsBehindGuard == []C1_State /\ [][C1_Step]_vars

\* a lead has been created by an authenticated request, and a later request
\* without any token has been turned away
C1_Witness ==
    /\ leads # {}
    /\ \E c \in Clients :
          /\ req[c].pc = "done" /\ req[c].route = "leads"
          /\ req[c].token = NoToken /\ CarriesNoToken(c)
          /\ req[c].resp.status = 401

GuardFailure(c) == req[c].pc = "done" /\ Guarded(c) /\ req[c].op = ""

Expired(tok) == now >= tok.iat + TokenTTL

C2_State ==
    \A c \in Clients :
        /\ req[c].nexts <= 1
        /\ req[c].pc \in {"VerifySignature", "LookupUser", "Authenticated"} =>
              req[c].token # NoToken
        /\ req[c].pc \in {"LookupUser", "Authenticated"} =>
              /\ req[c].token.form = "signed"
              /\ req[c].decoded = req[c].token.id
        /\ req[c].pc = "Authenticated" =>
              /\ req[c].nexts = 1
              /\ req[c].user._id = req[c].decoded
              /\ \E u \in users : req[c].user = PublicUser(u)
        /\ req[c].pc \in {"ExtractToken", "VerifySignature", "LookupUser"} =>
              /\ req[c].nexts = 0
              /\ req[c].user = NoUser
        /\ GuardFailure(c) =>
              /\ req[c].nexts = 0
              /\ req[c].user = NoUser
              /\ req[c].resp.status \in {401, 500}
              /\ req[c].resp.error = "Access denied. No token provided."
                    <=> req[c].token = NoToken
              /\ req[c].token = NoToken => CarriesNoToken(c)
              /\ req[c].resp.error = "Invalid token."
                    <=> req[c].token.form \in {"malformed", "badsig"}
              /\ req[c].resp.error = "Token expired."
                    => req[c].token.form = "signed" /\ Expired(req[c].token)
              /\ req[c].resp.error = "Invalid token. User not found."
                    => req[c].token.form = "signed" /\ req[c].decoded = req[c].token.id
              /\ req[c].resp.status = 500
                    => req[c].resp.error = "Server error during authentication."
                       /\ req[c].decoded # 0
        /\ req[c].pc = "ExtractToken" => ENABLED ExtractToken(c)
        /\ req[c].pc = "VerifySignature" => ENABLED VerifySignature(c)
        /\ req[c].pc = "LookupUser" => ENABLED LookupUser(c, FALSE)

C2_Step ==
    \A c \in Clients :
        LET old == req[c]
            new == req'[c] IN
        /\ (old.pc = "ExtractToken" /\ new # old) =>
              LET tok == IF old.cookie # NoToken THEN old.cookie
                         ELSE IF old.header.words = 2 THEN old.header.cred
                         ELSE NoToken IN
              IF tok = NoToken
              THEN new.pc = "done"
                   /\ new.resp = Fail(401, "Access denied. No token provided.")
              ELSE new.pc = "VerifySignature" /\ new.token = tok
        /\ (old.pc = "VerifySignature" /\ new # old) =>
              IF old.token.form \in {"malformed", "badsig"}
              THEN new.pc = "done" /\ new.resp = Fail(401, "Invalid token.")
              ELSE IF Expired(old.token)
              THEN new.pc = "done" /\ new.resp = Fail(401, "Token expired.")
              ELSE new.pc = "LookupUser"
        /\ (old.pc = "LookupUser" /\ new # old) =>
              \/ new.pc = "Authenticated" /\ \E u \in users : u._id = old.decoded
              \/ /\ new.pc = "done"
                 /\ new.resp = Fail(401, "Invalid token. User not found.")
                 /\ ~\E u \in users : u._id = old.decoded
              \/ /\ new.pc = "done"
                 /\ new.resp = Fail(500, "Server error during authentication.")
        /\ (new.pc = "VerifySignature" /\ new # old) => old.pc = "ExtractToken"
        /\ (new.pc = "LookupUser" /\ new # old) => old.pc = "VerifySignature"
        /\ (new.pc = "Authenticated" /\ new # old) => old.pc = "LookupUser"

\* C2: the Auth Guard steps ExtractToken, VerifySignature, LookupUser in this
\* order, no step blocks, and the request ends either Authenticated, the user
\* attached and next() called once, or with the failure of the first step that
\* fails: no token 401, a malformed or wrongly signed token 401 "Invalid token.",
\* an expired one 401 "Token expired.", a user that does not exist 401, any other
\* fault 500; a failed request has called no handler and carries no identity.
C2_GuardSteps == []C2_State /\ [][C2_Step]_vars

\* a correctly signed token, presented after its 7 days, has been refused as
\* expired
C2_Witness ==
    \E c \in Clients :
        /\ GuardFailure(c) /\ req[c].resp.error = "Token expired."
        /\ req[c].token.form = "signed"

\* C3: whatever creates, updates and deletes have run, every stored lead has an
\* integer score in [0,100], a leadValue >= 0, and a status and a source of the
\* enumerated sets.
C3_LeadsInRange ==
    \A l \in leads :
        /\ \E n \in 0..100 : l.score = 10 * n
        /\ l.leadValue >= 0
        /\ l.status \in {"new", "contacted", "qualified", "lost", "won"}
        /\ l.source \in {"website", "facebook_ads", "google_ads", "referral", "events",
                          "other"}

\* a lead updated to the top score, after another lead was created and deleted
C3_Witness ==
    /\ \E l \in leads : l.score = 1000 /\ l.updatedAt > l.createdAt
    /\ nextLeadId > Cardinality(leads) + 1

\* the rules of the lead schema that payload b breaks, by their messages
C4_Broken(b) ==
    LET Required(f, m) == IF \A i \in 1..Len(b[f]) : b[f][i] = " " THEN {m} ELSE {}
        AtMost(f, n, m) == IF Len(Trim(b[f])) > n THEN {m} ELSE {} IN
    Required("firstName", "First name is required") \cup
    AtMost("firstName", 50, "First name cannot exceed 50 characters") \cup
    Required("lastName", "Last name is required") \cup
    AtMost("lastName", 50, "Last name cannot exceed 50 characters") \cup
    (IF IsEmail(b.email) THEN {} ELSE {"Please enter a valid email"}) \cup
    (IF MatchesPhone(b.phone) THEN {} ELSE {"Please enter a valid phone number"}) \cup
    Required("company", "Company is required") \cup
    AtMost("company", 100, "Company name cannot exceed 100 characters") \cup
    Required("city", "City is required") \cup
    AtMost("city", 50, "City cannot exceed 50 characters") \cup
    Required("state", "State is required") \cup
    AtMost("state", 50, "State cannot exceed 50 characters") \cup
    (IF b.source \in Sources THEN {} ELSE {"Invalid source"}) \cup
    (IF b.status \in Statuses \cup {Absent} THEN {} ELSE {"Invalid status"}) \cup
    (IF \E n \in 0..100 : b.score = 10 * n THEN {}
        ELSE {"Score must be between 0 and 100"}) \cup
    (IF b.leadValue < 0 THEN {"Lead value must be a positive number"} ELSE {}) \cup
    (IF b.isQualified \in {"true", "false", Absent} THEN {}
        ELSE {"isQualified must be a boolean"}) \cup
    (IF b.lastActivityAt.fmt = "garbage" THEN {"lastActivityAt must be a valid date"}
        ELSE {})

Writes(c) == req[c].pc = "done" /\ req[c].op \in {"create", "update"}

C4_State ==
    \A c \in Clients :
        (Writes(c) /\ C4_Broken(req[c].body) # {}) =>
            /\ req[c].resp.status = 400
            /\ req[c].resp.error = "Validation failed"
            /\ {req[c].resp.details[i] : i \in DOMAIN req[c].resp.details}
                  = C4_Broken(req[c].body)
            /\ Len(req[c].resp.details) = Cardinality(C4_Broken(req[c].body))

C4_Step ==
    \A c \in Clients :
        (req'[c] # req[c] /\ req'[c].pc = "done" /\ req'[c].op \in {"create", "update"}
            /\ C4_Broken(req'[c].body) # {}) => leads' = leads

\* C4: a create or an update whose payload breaks a field rule is answered 400
\* "Validation failed" with the message of every rule it breaks, and the lead
\* store is the same after the request as before it.
C4_InvalidPayloadRejected == []C4_State /\ [][C4_Step]_vars

\* an update of a stored lead that broke four rules at once has been refused
C4_Witness ==
    \E c \in Clients :
        /\ Writes(c) /\ req[c].op = "update"
        /\ \E l \in leads : l._id = req[c].id
        /\ Cardinality(C4_Broken(req[c].body)) >= 4
        /\ req[c].resp.status = 400

C5_State ==
    \A c \in Clients :
        (req[c].pc = "done" /\ req[c].op \in {"create", "update"}
            /\ req[c].resp.status \in {200, 201}) =>
            \E l \in leads :
                /\ l._id = req[c].id
                /\ req[c].resp.body.createdBy._id = l.createdBy
                /\ req[c].resp.body.createdAt = l.createdAt
                /\ req[c].op = "create" => l.createdBy = req[c].user._id

C5_Step ==
    /\ \A l \in leads : \A m \in leads' :
          l._id = m._id => m.createdAt = l.createdAt /\ m.createdBy = l.createdBy
    /\ \A m \in leads' :
          (\A l \in leads : l._id # m._id) =>
              \E c \in Clients :
                  /\ req[c].pc = "Authenticated"
                  /\ req'[c].op = "create"
                  /\ m.createdBy = req[c].user._id

FreshGet(c) ==
    /\ req[c].pc = "done" /\ req[c].op = "get" /\ req[c].resp.status = 200
    /\ created[req[c].id] # {}

PayloadOf(id) == CHOOSE b \in created[id] : TRUE

Registers(c) == req[c].pc = "done" /\ req[c].op = "register"

Taken(email) == \E u \in users : LowerText(u.email) = LowerText(email)

C9_State ==
    /\ \A u, v \in users : LowerText(u.email) = LowerText(v.email) => u = v
    /\ \A c \in Clients :
          Registers(c) =>
              /\ req[c].resp.status \in {201, 400}
              /\ req[c].resp.status = 201 =>
                    /\ \E u \in users : /\ u.email = LowerText(req[c].body.email)
                                         /\ req[c].resp.setCookie.id = u._id
                                         /\ req[c].resp.body = PublicUser(u)
                    /\ req[c].resp.setCookie.form = "signed"
              /\ req[c].resp.status = 400 => req[c].resp.setCookie = NoToken

C9_Step ==
    \A c \in Clients :
        (req'[c] # req[c] /\ Registers(c)' /\ Taken(req'[c].body.email)) =>
            /\ req'[c].resp.status = 400
            /\ req'[c].resp.setCookie = NoToken
            /\ users' = users

Listed(c) == req[c].pc = "done" /\ req[c].op = "list"

ListedPage(c) == Listed(c) /\ req[c].resp.status = 200

PageOf(q) == IF q.page = NoParam THEN DefaultPage ELSE q.page

LimitOf(q) == IF q.limit = NoParam THEN DefaultLimit ELSE q.limit

SortKeyOf(q) == IF q.sortBy = Absent THEN "createdAt" ELSE q.sortBy

\* the leads of the store that the request's query selects
MatchesOf(c) ==
    {l \in leads : Matches(l, req[c].query.query, Trim(req[c].body.search))}

\* a comes before b in the order the request asks for
Before(q, a, b) ==
    IF q.sortOrder = "asc" THEN a[SortKeyOf(q)] < b[SortKeyOf(q)]
    ELSE a[SortKeyOf(q)] > b[SortKeyOf(q)]

\* C6: a list request with page >= 1 and limit L in 1..100 (each at its default
\* when not given) over N matching leads is answered with totalLeads = N,
\* totalPages the least number of pages of L that hold N, hasNextPage exactly when
\* page*L < N and hasPrevPage exactly when page > 1; the items are at most L, as
\* many as the matches from offset (page-1)*L on allow, distinct matching leads
\* in the order asked for, each at its place from that offset in the sorted matches.
C6_Pagination ==
    \A c \in Clients :
        ListedPage(c) =>
            LET q == req[c].body
                page == PageOf(q)
                L == LimitOf(q)
                found == MatchesOf(c)
                N == Cardinality(found)
                p == req[c].resp.body.pagination
                items == req[c].resp.body.leads
                offset == (page - 1) * L
                rest == IF N > offset THEN N - offset ELSE 0 IN
            /\ page >= 1 /\ L >= 1 /\ L <= MaxLimit
            /\ p.currentPage = page /\ p.limit = L
            /\ p.totalLeads = N
            /\ p.totalPages * L >= N /\ (p.totalPages - 1) * L < N
            /\ p.hasNextPage <=> page * L < N
            /\ p.hasPrevPage <=> page > 1
            /\ Len(items) <= L
            /\ Len(items) = IF rest < L THEN rest ELSE L
            /\ \A i \in DOMAIN items :
                  \E l \in found :
                      /\ l._id = items[i]._id
                      /\ Cardinality({m \in found : Before(q, m, l)}) <= offset + i - 1
                      /\ Cardinality({m \in found : ~Before(q, l, m)}) >= offset + i
            /\ \A i, j \in DOMAIN items : i # j => items[i]._id # items[j]._id

\* the second page of two of three matching leads, sorted by score, was answered
C6_Witness ==
    /\ ListedPage("c1")
    /\ req["c1"].body.page = 2 /\ req["c1"].body.limit = 2
    /\ req["c1"].body.sortBy = "score"
    /\ Cardinality(MatchesOf("c1")) = 3
    /\ Len(req["c1"].resp.body.leads) = 1

RecognizedFields ==
    {"email", "company", "city", "state", "source", "status", "score", "leadValue",
     "createdAt", "lastActivityAt", "isQualified"}

LegalOperators(key) ==
    IF key \in {"email", "company", "city", "state"} THEN {"equals", "contains"}
    ELSE IF key \in {"source", "status"} THEN {"equals", "in"}
    ELSE IF key \in {"score", "leadValue"} THEN {"equals", "gt", "lt", "between"}
    ELSE IF key \in {"createdAt", "lastActivityAt"} THEN {"on", "before", "after", "between"}
    ELSE IF key = "isQualified" THEN {"equals"}
    ELSE {}

\* not an object, no operator, no value, an unknown field, an operator that is
\* not one of the field's, or between without value2
MalformedEntry(key, e) ==
    \/ e.shape # "object"
    \/ e.operator = ""
    \/ e.value.type = "undefined"
    \/ key \notin RecognizedFields
    \/ e.operator \notin LegalOperators(key)
    \/ e.operator = "between" /\ e.value2.type = "undefined"

Without(map, key) == [k \in DOMAIN map \ {key} |-> map[k]]

\* a list request that passed validation and carried a filter mapping
Compiled(c) ==
    /\ Listed(c)
    /\ req[c].resp.error # "Validation failed"
    /\ req[c].body.filters.kind = "object"

\* C7: for a filter mapping with a malformed entry, compiling succeeds (the
\* request is not answered 'Invalid filters format'), the entry contributes no
\* predicate, and the predicates are those of the mapping without the entry.
C7_CompilerTotal ==
    \A c \in Clients :
        Compiled(c) =>
            \A k \in DOMAIN req[c].body.filters.map :
                MalformedEntry(k, req[c].body.filters.map[k]) =>
                    /\ req[c].query.ok
                    /\ req[c].resp.error # "Invalid filters format"
                    /\ k \notin DOMAIN req[c].query.query
                    /\ req[c].query.query =
                          buildFilterQuery(Without(req[c].body.filters.map, k)).query

\* the text occurs in the field, letter case aside
Substring(needle, text) ==
    \E k \in 0..Len(text) - Len(needle) :
        \A i \in 1..Len(needle) : Lower(needle[i]) = Lower(text[k + i])

\* a compiled predicate as the filter grammar reads it: contains is a substring
Satisfies(pred, x) ==
    IF pred.p = "regex" THEN Substring(pred.pattern, x) ELSE PredicateHolds(pred, x)

Selected(c) ==
    {l \in leads :
        /\ \A k \in DOMAIN req[c].query.query : Satisfies(req[c].query.query[k], l[k])
        /\ Trim(req[c].body.search) # <<>> =>
              \E f \in SearchFields : Substring(Trim(req[c].body.search), l[f])}

\* C10: a list request that passed validation and whose filters compiled is
\* answered with exactly the leads in at least one of whose firstName, lastName,
\* email, company, city, state the search text, when there is one, occurs as a
\* substring, letter case aside, and for which every compiled predicate holds:
\* their number is totalLeads, every item is one of them, and a first page that
\* they fit in holds them all.
C10_SearchAndFilters ==
    \A c \in Clients :
        (Listed(c) /\ req[c].resp.error # "Validation failed" /\ req[c].query.ok) =>
            /\ req[c].resp.status = 200
            /\ req[c].resp.body.pagination.totalLeads = Cardinality(Selected(c))
            /\ \A i \in DOMAIN req[c].resp.body.leads :
                  \E l \in Selected(c) : l._id = req[c].resp.body.leads[i]._id
            /\ (PageOf(req[c].body) = 1 /\ Cardinality(Selected(c)) <= LimitOf(req[c].body)) =>
                  {req[c].resp.body.leads[i]._id : i \in DOMAIN req[c].resp.body.leads}
                      = {l._id : l \in Selected(c)}

\* a stats request has been answered
StatsAnswered(c) == req[c].pc = "done" /\ req[c].op = "stats"

\* the score of the stored lead of an id, 0 when the store has none
ScoreAt(id) ==
    IF \E l \in leads : l._id = id THEN (CHOOSE l \in leads : l._id = id).score ELSE 0

\* the scores of the stored leads of ids 1..id, added up
RECURSIVE ScoresUpTo(_)
ScoresUpTo(id) == IF id = 0 THEN 0 ELSE ScoreAt(id) + ScoresUpTo(id - 1)

\* C11: a stats request, whatever creates, updates and deletes came before it,
\* is answered 200 with totalLeads the number of stored leads, with statusStats
\* and sourceStats counting every stored lead under its status and its source,
\* and with avgScore the mean of the scores of all stored leads (avgScore times
\* their number is their sum); over an empty store avgScore is the number 0,
\* not null, and totalLeads is 0.
C11_StatsOverAllLeads ==
    \A c \in Clients :
        StatsAnswered(c) =>
            LET r == req[c].resp.body
                N == Cardinality(leads) IN
            /\ req[c].resp.status = 200
            /\ r.totalLeads = N
            /\ r.avgScore.den # 0
            /\ N = 0 => r.avgScore.num = 0 /\ r.totalLeads = 0
            /\ N # 0 => r.avgScore.num * N = ScoresUpTo(nextLeadId - 1) * r.avgScore.den
            /\ \A st \in Statuses :
                  Cardinality({l \in leads : l.status = st}) =
                      IF st \in DOMAIN r.statusStats THEN r.statusStats[st] ELSE 0
            /\ \A so \in Sources :
                  Cardinality({l \in leads : l.source = so}) =
                      IF so \in DOMAIN r.sourceStats THEN r.sourceStats[so] ELSE 0

\* stats was answered over a created lead and a created and updated one, of
\* different statuses and scores
C11_Witness ==
    /\ StatsAnswered("c1")
    /\ Cardinality(leads) = 2
    /\ {l.status : l \in leads} = {"new", "won"}
    /\ {l.score : l \in leads} = {500, 1000}
    /\ req["c1"].resp.body.avgScore = [num |-> 1500, den |-> 2]

====
